---- MODULE Spec2Model ----
(***************************************************************************)
(* The WebSocket session client (class WSClient): connection lifecycle,    *)
(* reconnection with backoff, request/response correlation, liveness ping. *)
(* Every action is one task of the single-threaded event loop: a public    *)
(* method call, a transport callback or a timer callback, together with    *)
(* the promise continuations (microtasks) it releases.                     *)
(*                                                                         *)
(* The specifications share the actions and differ in their bounds and    *)
(* inputs:                                                                 *)
(*   Spec        every operation and every kind of inbound frame;          *)
(*   SpecPair    several operations in flight, close(), plain replies,     *)
(*               transports opened by callers only;                        *)
(*   SpecConn    connection lifecycle with ping and close as operations;   *)
(*   SpecRace    as SpecConn, with one more transport;                     *)
(*   SpecBackoff reconnection: enough transports to exhaust the attempts,  *)
(*               connect() as the only caller operation, no listener;      *)
(*   SpecLive    operations over the connection lifecycle, with timers and *)
(*               transport callbacks fired fairly;                         *)
(*   SpecMsg     message handling: every kind of inbound frame, transports *)
(*               opened by callers only;                                   *)
(*   SpecProbe   the liveness prober: pings are issued by the interval     *)
(*               timer only;                                               *)
(*   SpecOrder   two operations in flight on one transport, every kind of  *)
(*               inbound frame;                                            *)
(*   SpecSend    operations issued over three transports that open and     *)
(*               fail, no replies and no timeouts;                         *)
(*   SpecIso     two operations over three transports opened by callers,   *)
(*               an 'error' listener staying subscribed: every way an      *)
(*               operation fails.                                          *)
(***************************************************************************)
EXTENDS Integers, Sequences, FiniteSets, TLC

\* Bounds of the exploration, per specification: connect attempts (transports
\* constructed) and sendMessage invocations.
MaxSockets == 2
MaxOps == 1
PairSockets == 1
PairOps == 2
ConnSockets == 2
ConnOps == 1
RaceSockets == 3
RaceOps == 1
BackoffSockets == 6
BackoffCallers == 2    \* transports a caller's connect() may construct
LiveSockets == 2
LiveOps == 2
MsgSockets == 1
MsgOps == 1
ProbeSockets == 2
ProbeOps == 1
IsoSockets == 3
IsoOps == 2
OrderSockets == 1
OrderOps == 2
SendSockets == 3
SendOps == 2

\* Program constants.
maxReconnectAttempts == 5
reconnectTimeout == 1000
RequestTimeoutMs == 30000
PingIntervalMs == 30000

VARIABLES
  urlValid,          \* whether new WebSocket(this.url) succeeds (fixed per instance)
  sockets,           \* per connect attempt: state of the transport it constructed
  socket,            \* this.socket: index into sockets, 0 is null
  promises,          \* per connect attempt: state of the promise it created
  isConnecting,      \* this.isConnecting
  reconnectAttempts, \* this.reconnectAttempts
  pingInterval,      \* this.pingInterval: an interval handle, 0 is null
  intervals,         \* the setInterval timers that are running
  reconnectTimers,   \* the reconnect setTimeout timers not yet fired
  ops,               \* the sendMessage invocations made so far
  pendingRequests,   \* this.pendingRequests: entries [requestId, op], one per key
  requestTimers,     \* the request setTimeout timers not yet fired
  uuidCount,         \* number of requestIds generated so far
  errorListener,     \* whether a listener is subscribed to 'error'
  emitted,           \* events emitted by the last task, in order
  raised,            \* whether the last task threw out of its handler
  inbound,           \* the frame the last task was handed, NoFrame if none
  settled,           \* resolve/reject calls on invocations made by the last task
  effects,           \* what handleMessage did in the last task, in program order
  lastConnect,       \* the promise the most recent connect() call returned:
                     \* 0 an already-resolved one, p that of attempt p, -1 no call yet
  closures,          \* transport closures since the last transport-open
  scheduled          \* reconnects scheduled since the last transport-open

vars == <<urlValid, sockets, socket, promises, isConnecting, reconnectAttempts,
          pingInterval, intervals, reconnectTimers, ops, pendingRequests,
          requestTimers, uuidCount, errorListener, emitted, raised, inbound,
          settled, effects, lastConnect, closures, scheduled>>

connVars == <<sockets, socket, promises, isConnecting>>
pingVars == <<pingInterval, intervals>>
reqVars == <<ops, pendingRequests, requestTimers, uuidCount>>
histVars == <<closures, scheduled>>

----------------------------------------------------------------------------
\* Values

Statuses == {"success", "error", "in_progress", "completed"}
NoData == [present |-> FALSE, status |-> "", message |-> ""]
Data(st, msg) == [present |-> TRUE, status |-> st, message |-> msg]
Payloads == {NoData} \cup {Data(st, "") : st \in Statuses} \cup {Data("error", "X")}

Ok(d) == [kind |-> "ok", info |-> "", data |-> d]
Err(kind, info) == [kind |-> kind, info |-> info, data |-> NoData]

\* An emitted event with its payload: the envelope for 'message', the
\* envelope's data for the train events; the payloads of the other events
\* are not recorded.
NoEnvelope == [messageType |-> "", commandType |-> "", data |-> NoData, requestId |-> 0]
Event(type, d) == [type |-> type, data |-> d, envelope |-> NoEnvelope]
MessageEvent(e) == [type |-> "message", data |-> e.data, envelope |-> e]

\* Inbound frames: parses is whether JSON.parse succeeds, listenerThrows
\* whether a 'message' listener throws; requestId 0 is an absent requestId,
\* uuidCount + 1 one the client never issued.
Frame(ok, lt, mt, ct, d, rid) ==
  [parses |-> ok, listenerThrows |-> lt, messageType |-> mt, commandType |-> ct,
   data |-> d, requestId |-> rid]

NoFrame == Frame(FALSE, FALSE, "", "", NoData, -1)

RECURSIVE Pow2(_)
Pow2(n) == IF n = 0 THEN 1 ELSE 2 * Pow2(n - 1)

\* WebSocket.readyState of transport s in sk. "CLOSED" is a closed transport whose
\* close event is still to be dispatched, "DONE" one whose close event has been.
ReadyStateIn(sk, s) == IF sk[s] \in {"CLOSED", "DONE"} THEN "CLOSED" ELSE sk[s]

ReadyState(s) == ReadyStateIn(sockets, s)

\* this.connectionPromise: the promise of the latest connect attempt, 0 is null
connectionPromise == Len(promises)

isConnected == socket # 0 /\ ReadyState(socket) = "OPEN"

\* The error and close events of one failing transport are dispatched in the
\* same event-loop task: no other transport or timer callback runs between.
NoDispatchPending == \A s \in DOMAIN sockets : sockets[s] # "CLOSED"

\* Caller code runs in a task of its own, or between the error and the close
\* event of a transport when an 'error' listener is subscribed: from that
\* listener, or from a continuation of the promise the error callback rejected.
CallerRuns == NoDispatchPending \/ errorListener

TypeOK ==
  /\ urlValid \in BOOLEAN
  /\ socket \in 0..Len(sockets)
  /\ Len(promises) = Len(sockets)
  /\ \A s \in DOMAIN sockets :
       sockets[s] \in {"CONNECTING", "OPEN", "CLOSING", "CLOSED", "DONE", "NONE"}
  /\ \A p \in DOMAIN promises : promises[p] \in {"pending", "resolved", "rejected"}
  /\ isConnecting \in BOOLEAN
  /\ reconnectAttempts \in Nat
  /\ pingInterval \in 0..Len(sockets)
  /\ intervals \subseteq DOMAIN sockets
  /\ errorListener \in BOOLEAN
  /\ raised \in BOOLEAN
  /\ \A i \in DOMAIN ops : ops[i].state \in {"connecting", "pending", "resolved", "rejected"}

Init ==
  /\ urlValid \in BOOLEAN
  /\ sockets = <<>>
  /\ socket = 0
  /\ promises = <<>>
  /\ isConnecting = FALSE
  /\ reconnectAttempts = 0
  /\ pingInterval = 0
  /\ intervals = {}
  /\ reconnectTimers = {}
  /\ ops = <<>>
  /\ pendingRequests = {}
  /\ requestTimers = {}
  /\ uuidCount = 0
  /\ errorListener = FALSE
  /\ emitted = <<>>
  /\ raised = FALSE
  /\ inbound = NoFrame
  /\ settled = <<>>
  /\ effects = <<>>
  /\ lastConnect = -1
  /\ closures = 0
  /\ scheduled = 0

----------------------------------------------------------------------------
\* The pending-request map (a Map keyed by requestId)

MapHas(pr, rid) == \E e \in pr : e.requestId = rid
MapGet(pr, rid) == (CHOOSE e \in pr : e.requestId = rid).op
MapSet(pr, rid, i) == {e \in pr : e.requestId # rid} \cup {[requestId |-> rid, op |-> i]}
\* Mutant: the entry is never deleted.
MapDelete_Keep(pr, rid) == pr

\* Mutant: deleting one entry clears the map.
MapDelete_Clear(pr, rid) == {}

MapDelete(pr, rid) == {e \in pr : e.requestId # rid}

\* Mutant: the generator repeats an identifier.
uuidv4_Repeats(n) == 1

\* uuidv4(): a fresh identifier; n identifiers were generated before
uuidv4(n) == n + 1

\* Mutant: the timeout error does not name the command.
TimeoutError_Unnamed(cmd) == [kind |-> "Timeout", info |-> "", data |-> NoData]

\* new Error(`Request timeout for command: ${commandType}`)
TimeoutError(cmd) == Err("Timeout", cmd)

Done == {"resolved", "rejected"}

NewOp(cmd) == [cmd |-> cmd, state |-> "connecting", wait |-> 0, requestId |-> 0,
               settles |-> 0, sentOn |-> 0]

\* resolve(..) or reject(..) of an invocation's promise: the first call decides
Settle(o, res) ==
  IF o.state \in Done THEN [o EXCEPT !.settles = @ + 1]
  ELSE [o EXCEPT !.settles = @ + 1, !.wait = 0,
                 !.state = IF res.kind = "ok" THEN "resolved" ELSE "rejected"]

\* st is [ops, pendingRequests, requestTimers, uuidCount, settled]:
\* invocation i is settled with res
SettleIn(st, i, res) ==
  [st EXCEPT !.ops[i] = Settle(@, res),
             !.settled = Append(@, [op |-> i, result |-> res])]

Min(S) == CHOOSE x \in S : \A y \in S : x <= y

\* Mutant: the command is sent without looking at the transport's readyState.
SendBody_Unchecked(st, i, sk, sock) ==
  LET rid == uuidv4(st.uuidCount) IN
  [st EXCEPT !.ops[i] = [@ EXCEPT !.state = "pending", !.wait = 0,
                                  !.requestId = rid, !.sentOn = sock],
             !.pendingRequests = MapSet(@, rid, i),
             !.requestTimers = @ \cup {[op |-> i, requestId |-> rid,
                                        delay |-> RequestTimeoutMs]},
             !.uuidCount = @ + 1]

\* Body of the promise sendMessage returns, run once connect() has resolved,
\* for invocation i, with transports sk and this.socket = sock.
SendBody(st, i, sk, sock) ==
  IF sock = 0 \/ ReadyStateIn(sk, sock) # "OPEN"
  THEN SettleIn(st, i, Err("NotConnected", "WebSocket is not connected"))
  ELSE LET rid == uuidv4(st.uuidCount) IN
       [st EXCEPT !.ops[i] = [@ EXCEPT !.state = "pending", !.wait = 0,
                                       !.requestId = rid, !.sentOn = sock],
                  !.pendingRequests = MapSet(@, rid, i),
                  !.requestTimers = @ \cup {[op |-> i, requestId |-> rid,
                                             delay |-> RequestTimeoutMs]},
                  !.uuidCount = @ + 1]

RECURSIVE RunBodies(_, _, _, _)
RunBodies(st, todo, sk, sock) ==
  IF todo = {} THEN st
  ELSE LET i == Min(todo) IN RunBodies(SendBody(st, i, sk, sock), todo \ {i}, sk, sock)

RECURSIVE RejectAll(_, _, _)
RejectAll(st, todo, res) ==
  IF todo = {} THEN st
  ELSE LET i == Min(todo) IN RejectAll(SettleIn(st, i, res), todo \ {i}, res)

ReqState == [ops |-> ops, pendingRequests |-> pendingRequests,
             requestTimers |-> requestTimers, uuidCount |-> uuidCount,
             settled |-> <<>>]

\* The invocations suspended in "await this.connect()" on promise p
Waiters(p) == {i \in DOMAIN ops : ops[i].state = "connecting" /\ ops[i].wait = p}

\* Promise p is resolved: its waiters continue into the sendMessage body.
AfterResolve(p, sk, sock) ==
  IF promises[p] = "pending" THEN RunBodies(ReqState, Waiters(p), sk, sock) ELSE ReqState

\* Promise p is rejected: its waiters fail with the connect error.
AfterReject(p, info) ==
  IF promises[p] = "pending" THEN RejectAll(ReqState, Waiters(p), Err("Transport", info))
  ELSE ReqState

SettlePromise(p, v) == [promises EXCEPT ![p] = IF @ = "pending" THEN v ELSE @]

SetReq(st) ==
  /\ ops' = st.ops
  /\ pendingRequests' = st.pendingRequests
  /\ requestTimers' = st.requestTimers
  /\ uuidCount' = st.uuidCount
  /\ settled' = st.settled

NoReq == UNCHANGED reqVars /\ settled' = <<>>

\* The task emits evs, throws out of its handler iff r, and is no message task.
Emit(evs, r) == emitted' = evs /\ raised' = r /\ inbound' = NoFrame /\ effects' = <<>>

Quiet == Emit(<<>>, FALSE)

----------------------------------------------------------------------------
\* connect()

\* Mutant: the open transport is not looked at.
ConnectReturn_NoOpenCheck ==
  IF isConnecting THEN Len(promises) ELSE Len(promises) + 1

\* What a connect() call returns: 0 is an already-resolved promise, p > 0 the
\* promise of connect attempt p.
ConnectReturn ==
  IF socket # 0 /\ ReadyState(socket) = "OPEN" THEN 0
  ELSE IF isConnecting THEN connectionPromise
  ELSE Len(promises) + 1

\* The call starts a new attempt.
ConnectCreates == ConnectReturn > Len(promises)

\* The client after the call: a new attempt constructs a transport, or fails
\* in the constructor (the catch branch).
ConnectEffect ==
  IF ConnectCreates
  THEN /\ sockets' = Append(sockets, IF urlValid THEN "CONNECTING" ELSE "NONE")
       /\ promises' = Append(promises, IF urlValid THEN "pending" ELSE "rejected")
       /\ socket' = IF urlValid THEN Len(sockets) + 1 ELSE socket
       /\ isConnecting' = urlValid
  ELSE UNCHANGED connVars

CanConnect(maxS) == ConnectCreates => Len(sockets) < maxS

\* A caller invokes connect().
Connect(maxS) ==
  /\ CallerRuns
  /\ CanConnect(maxS)
  /\ ConnectEffect
  /\ lastConnect' = ConnectReturn
  /\ Quiet
  /\ NoReq
  /\ UNCHANGED <<urlValid, reconnectAttempts, pingVars, reconnectTimers,
                 errorListener, histVars>>

\* cleanup(): stop the interval this.pingInterval names
CleanupIntervals == IF pingInterval # 0 THEN intervals \ {pingInterval} ELSE intervals

\* attemptReconnect(): the counter after the call
ReconnectCounter ==
  IF reconnectAttempts >= maxReconnectAttempts THEN reconnectAttempts
  ELSE reconnectAttempts + 1

\* Mutant: the delay is computed from the counter before its increment.
ReconnectDelay_Early ==
  IF reconnectAttempts = 0 THEN reconnectTimeout \div 2
  ELSE reconnectTimeout * Pow2(reconnectAttempts - 1)

\* attemptReconnect(): the delay of the timer it arms
ReconnectDelay == reconnectTimeout * Pow2(ReconnectCounter - 1)

\* Mutant: the attempts are not capped.
ReconnectTimersAfter_Uncapped(s) ==
  reconnectTimers \cup {[id |-> s, delay |-> ReconnectDelay]}

\* Mutant: a transport that close() was called on schedules no reconnect.
ReconnectTimersAfter_Terminal(s) ==
  IF \/ reconnectAttempts >= maxReconnectAttempts
     \/ \E i \in DOMAIN ops : ops[i].cmd = "close" /\ ops[i].sentOn = s
  THEN reconnectTimers
  ELSE reconnectTimers \cup {[id |-> s, delay |-> ReconnectDelay]}

\* attemptReconnect(), called from the close callback of transport s
ReconnectTimersAfter(s) ==
  IF reconnectAttempts >= maxReconnectAttempts THEN reconnectTimers
  ELSE reconnectTimers \cup {[id |-> s, delay |-> ReconnectDelay]}

\* Mutant: onopen keeps the attempt counter.
OnOpen_NoReset(s) ==
  /\ NoDispatchPending
  /\ sockets[s] = "CONNECTING"
  /\ sockets' = [sockets EXCEPT ![s] = "OPEN"]
  /\ pingInterval' = s
  /\ intervals' = intervals \cup {s}
  /\ isConnecting' = FALSE
  /\ Emit(<<Event("connected", NoData)>>, FALSE)
  /\ promises' = SettlePromise(s, "resolved")
  /\ SetReq(AfterResolve(s, sockets', socket))
  /\ closures' = 0
  /\ scheduled' = 0
  /\ UNCHANGED <<urlValid, socket, reconnectAttempts, reconnectTimers, errorListener,
                 lastConnect>>

\* socket.onopen of transport s
OnOpen(s) ==
  /\ NoDispatchPending
  /\ sockets[s] = "CONNECTING"
  /\ sockets' = [sockets EXCEPT ![s] = "OPEN"]
  /\ reconnectAttempts' = 0
  /\ pingInterval' = s
  /\ intervals' = intervals \cup {s}
  /\ isConnecting' = FALSE
  /\ Emit(<<Event("connected", NoData)>>, FALSE)
  /\ promises' = SettlePromise(s, "resolved")
  /\ SetReq(AfterResolve(s, sockets', socket))
  /\ closures' = 0
  /\ scheduled' = 0
  /\ UNCHANGED <<urlValid, socket, reconnectTimers, errorListener, lastConnect>>

\* socket.onerror of transport s; the transport's close event follows
OnError(s) ==
  /\ NoDispatchPending
  /\ sockets[s] \in {"CONNECTING", "OPEN", "CLOSING"}
  /\ sockets' = [sockets EXCEPT ![s] = "CLOSED"]
  /\ Emit(<<Event("error", NoData)>>, ~errorListener)
  /\ IF errorListener /\ isConnecting
     THEN /\ promises' = SettlePromise(s, "rejected")
          /\ SetReq(AfterReject(s, "error"))
          /\ isConnecting' = FALSE
     ELSE UNCHANGED <<promises, isConnecting>> /\ NoReq
  /\ UNCHANGED <<urlValid, socket, reconnectAttempts, pingVars, reconnectTimers,
                 errorListener, lastConnect, histVars>>

\* socket.onclose of transport s
OnClose(s) ==
  /\ sockets[s] \in {"OPEN", "CLOSING", "CLOSED"}
  /\ sockets[s] # "CLOSED" => NoDispatchPending
  /\ sockets' = [sockets EXCEPT ![s] = "DONE"]
  /\ intervals' = CleanupIntervals
  /\ pingInterval' = 0
  /\ Emit(<<Event("disconnected", NoData)>>, FALSE)
  /\ reconnectAttempts' = ReconnectCounter
  /\ reconnectTimers' = ReconnectTimersAfter(s)
  /\ IF isConnecting
     THEN /\ promises' = SettlePromise(s, "rejected")
          /\ SetReq(AfterReject(s, "closed"))
          /\ isConnecting' = FALSE
     ELSE UNCHANGED <<promises, isConnecting>> /\ NoReq
  /\ closures' = closures + 1
  /\ scheduled' = scheduled + Cardinality(reconnectTimers') - Cardinality(reconnectTimers)
  /\ UNCHANGED <<urlValid, socket, errorListener, lastConnect>>

\* The reconnect timer t fires: connect(), its failure only logged
ReconnectFire(t, maxS) ==
  /\ NoDispatchPending
  /\ t \in reconnectTimers
  /\ CanConnect(maxS)
  /\ reconnectTimers' = reconnectTimers \ {t}
  /\ ConnectEffect
  /\ lastConnect' = ConnectReturn
  /\ Quiet
  /\ NoReq
  /\ UNCHANGED <<urlValid, reconnectAttempts, pingVars, errorListener, histVars>>

----------------------------------------------------------------------------
\* sendMessage and the public operations

\* sendMessage(cmd): await connect(), then the body; the invocation stays
\* suspended while the connect promise it was handed is pending.
SendMessage(cmd, maxS, maxO) ==
  /\ CallerRuns
  /\ Len(ops) < maxO
  /\ CanConnect(maxS)
  /\ ConnectEffect
  /\ lastConnect' = ConnectReturn
  /\ LET i == Len(ops) + 1
         r == ConnectReturn
         st0 == [ReqState EXCEPT !.ops = Append(ops, [NewOp(cmd) EXCEPT !.wait = r])]
     IN IF r = 0 THEN SetReq(SendBody(st0, i, sockets, socket))
        ELSE IF promises'[r] = "pending" THEN SetReq(st0)
        ELSE IF promises'[r] = "rejected"
             THEN SetReq(SettleIn(st0, i, Err("Transport", "constructor")))
             ELSE SetReq(SendBody(st0, i, sockets', socket'))
  /\ Quiet
  /\ UNCHANGED <<urlValid, reconnectAttempts, reconnectTimers, errorListener, histVars>>

InitModel(maxS, maxO) == SendMessage("init", maxS, maxO) /\ UNCHANGED pingVars
TrainModel(maxS, maxO) == SendMessage("train", maxS, maxO) /\ UNCHANGED pingVars
QueryLayer(maxS, maxO) == SendMessage("query", maxS, maxO) /\ UNCHANGED pingVars
Ping(maxS, maxO) == SendMessage("ping", maxS, maxO) /\ UNCHANGED pingVars

\* The ping interval h ticks: ping(), its failure only logged
PingFire(h, maxS, maxO) ==
  /\ NoDispatchPending
  /\ h \in intervals
  /\ SendMessage("ping", maxS, maxO)
  /\ UNCHANGED pingVars

\* Mutant: a close() on a connection that is not open drops the requests.
Close_Cancels(maxS, maxO) ==
  IF isConnected
  THEN SendMessage("close", maxS, maxO) /\ UNCHANGED pingVars
  ELSE /\ CallerRuns
       /\ intervals' = CleanupIntervals
       /\ pingInterval' = 0
       /\ Quiet
       /\ pendingRequests' = {}
       /\ settled' = <<>>
       /\ UNCHANGED <<ops, requestTimers, uuidCount>>
       /\ UNCHANGED <<urlValid, connVars, reconnectAttempts, reconnectTimers,
                      errorListener, lastConnect, histVars>>

\* Mutant: a close() on a connection that is not open cancels the reconnects.
Close_Abandons(maxS, maxO) ==
  IF isConnected
  THEN SendMessage("close", maxS, maxO) /\ UNCHANGED pingVars
  ELSE /\ CallerRuns
       /\ intervals' = CleanupIntervals
       /\ pingInterval' = 0
       /\ reconnectTimers' = {}
       /\ Quiet
       /\ NoReq
       /\ UNCHANGED <<urlValid, connVars, reconnectAttempts, errorListener,
                      lastConnect, histVars>>

\* close(reason): when open, the close command is sent and the rest of close()
\* waits for its reply; otherwise only cleanup() runs.
Close(maxS, maxO) ==
  IF isConnected
  THEN SendMessage("close", maxS, maxO) /\ UNCHANGED pingVars
  ELSE /\ CallerRuns
       /\ intervals' = CleanupIntervals
       /\ pingInterval' = 0
       /\ Quiet
       /\ NoReq
       /\ UNCHANGED <<urlValid, connVars, reconnectAttempts, reconnectTimers,
                      errorListener, lastConnect, histVars>>

\* on('error', listener) / off('error', listener)
On ==
  /\ NoDispatchPending
  /\ ~errorListener
  /\ errorListener' = TRUE
  /\ Quiet
  /\ NoReq
  /\ UNCHANGED <<urlValid, connVars, reconnectAttempts, pingVars, reconnectTimers,
                 lastConnect, histVars>>

Off ==
  /\ errorListener
  /\ errorListener' = FALSE
  /\ Quiet
  /\ NoReq
  /\ UNCHANGED <<urlValid, connVars, reconnectAttempts, pingVars, reconnectTimers,
                 lastConnect, histVars>>

\* WebSocket.close() on transport c
SocketClose(c) ==
  IF c # 0 /\ sockets[c] \in {"CONNECTING", "OPEN"}
  THEN [sockets EXCEPT ![c] = "CLOSING"] ELSE sockets

\* Mutant: a ping that times out closes the transport.
RequestTimeout_Disconnects(t) ==
  /\ NoDispatchPending
  /\ t \in requestTimers
  /\ IF MapHas(pendingRequests, t.requestId)
     THEN SetReq(SettleIn([ReqState EXCEPT
                             !.requestTimers = @ \ {t},
                             !.pendingRequests = MapDelete(@, t.requestId)],
                          t.op, TimeoutError(ops[t.op].cmd)))
     ELSE SetReq([ReqState EXCEPT !.requestTimers = @ \ {t}])
  /\ Quiet
  /\ sockets' = IF MapHas(pendingRequests, t.requestId) /\ ops[t.op].cmd = "ping"
                THEN SocketClose(socket) ELSE sockets
  /\ UNCHANGED <<urlValid, socket, promises, isConnecting, reconnectAttempts, pingVars,
                 reconnectTimers, errorListener, lastConnect, histVars>>

\* The request timer t fires.
RequestTimeout(t) ==
  /\ NoDispatchPending
  /\ t \in requestTimers
  /\ IF MapHas(pendingRequests, t.requestId)
     THEN SetReq(SettleIn([ReqState EXCEPT
                             !.requestTimers = @ \ {t},
                             !.pendingRequests = MapDelete(@, t.requestId)],
                          t.op, TimeoutError(ops[t.op].cmd)))
     ELSE SetReq([ReqState EXCEPT !.requestTimers = @ \ {t}])
  /\ Quiet
  /\ UNCHANGED <<urlValid, connVars, reconnectAttempts, pingVars, reconnectTimers,
                 errorListener, lastConnect, histVars>>

----------------------------------------------------------------------------
\* handleMessage

FrameCommands == {"train", "init"}

Malformed == Frame(FALSE, FALSE, "response", "init", NoData, 0)

Frames ==
  {Malformed}
  \cup {Frame(TRUE, TRUE, "response", "init", Data("success", ""), rid) :
          rid \in 0..(uuidCount + 1)}
  \cup {Frame(TRUE, FALSE, "response", ct, d, rid) :
          ct \in FrameCommands, d \in Payloads, rid \in 0..(uuidCount + 1)}
  \cup {Frame(TRUE, FALSE, "command", ct, Data("completed", ""), rid) :
          ct \in FrameCommands, rid \in 0..(uuidCount + 1)}

\* The replies a server sends to the commands it received
Replies ==
  {Frame(TRUE, FALSE, "response", "init", d, rid) :
     d \in {Data("success", ""), Data("error", "X")}, rid \in 1..uuidCount}

\* The handler leaves its try block through a throw.
Throws(f) ==
  \/ ~f.parses
  \/ f.listenerThrows
  \/ f.commandType = "train" /\ ~f.data.present

\* Mutant: a completed training also reports progress.
TrainEvents_Both(f) ==
  IF f.commandType = "train" /\ f.data.present
  THEN IF f.data.status = "in_progress" THEN <<Event("train_progress", f.data)>>
       ELSE IF f.data.status = "completed"
            THEN <<Event("train_progress", f.data), Event("train_completed", f.data)>>
            ELSE <<>>
  ELSE <<>>

\* Mutant: a completed training is not announced.
TrainEvents_ProgressOnly(f) ==
  IF f.commandType = "train" /\ f.data.present /\ f.data.status = "in_progress"
  THEN <<Event("train_progress", f.data)>>
  ELSE <<>>

\* The train dispatch of handleMessage
TrainEvents(f) ==
  IF f.commandType = "train" /\ f.data.present
  THEN IF f.data.status = "in_progress" THEN <<Event("train_progress", f.data)>>
       ELSE IF f.data.status = "completed" THEN <<Event("train_completed", f.data)>>
       ELSE <<>>
  ELSE <<>>

\* Mutant: the 'message' event is not emitted.
HandleEmits_NoMessage(f) ==
  IF f.parses /\ f.commandType = "train" /\ f.data.present /\ f.data.status = "in_progress"
  THEN <<Event("train_progress", f.data)>>
  ELSE <<Event("error", NoData)>>

\* The envelope JSON.parse yields for frame f
Envelope(f) == [messageType |-> f.messageType, commandType |-> f.commandType,
                data |-> f.data, requestId |-> f.requestId]

HandleEmits(f) ==
  IF ~f.parses THEN <<Event("error", NoData)>>
  ELSE IF Throws(f) THEN <<MessageEvent(Envelope(f)), Event("error", NoData)>>
  ELSE <<MessageEvent(Envelope(f))>> \o TrainEvents(f)

\* Mutant: an in-progress response is not taken for the answer.
Matches_TerminalOnly(f) ==
  /\ ~Throws(f)
  /\ f.requestId # 0
  /\ MapHas(pendingRequests, f.requestId)
  /\ ~(f.data.present /\ f.data.status = "in_progress")

\* Mutant: only an envelope of kind "response" is correlated.
Matches_ResponseOnly(f) ==
  /\ ~Throws(f)
  /\ f.messageType = "response"
  /\ f.requestId # 0
  /\ MapHas(pendingRequests, f.requestId)

\* The frame resolves a pending request.
Matches(f) == ~Throws(f) /\ f.requestId # 0 /\ MapHas(pendingRequests, f.requestId)

\* Mutant: the status of the payload is not looked at.
Outcome_Resolves(f) == Ok(f.data)

\* What the matching request is settled with: reject(new Error(..)) or resolve(data)
Outcome(f) ==
  IF f.data.present /\ f.data.status = "error"
  THEN Err("Remote", IF f.data.message # "" THEN f.data.message ELSE "Unknown error")
  ELSE Ok(f.data)

\* Mutant: the request is resolved before the events are emitted.
HandleEffects_ResolveFirst(f) ==
  IF ~f.parses THEN <<"error">>
  ELSE (IF ~Throws(f) /\ f.requestId # 0 /\ MapHas(pendingRequests, f.requestId)
        THEN <<"settle", "delete">> ELSE <<>>)
       \o IF Throws(f) THEN <<"message", "error">>
          ELSE <<"message">> \o [k \in DOMAIN TrainEvents(f) |-> TrainEvents(f)[k].type]

\* The statements of handleMessage that take effect for frame f, in program
\* order: the emits by event type, the resolve/reject call, the delete.
HandleEffects(f) ==
  IF ~f.parses THEN <<"error">>
  ELSE IF Throws(f) THEN <<"message", "error">>
  ELSE <<"message">>
       \o [k \in DOMAIN TrainEvents(f) |-> TrainEvents(f)[k].type]
       \o IF Matches(f) THEN <<"settle", "delete">> ELSE <<>>

\* close() resumes after its close command was answered without error:
\* this.socket.close(), then cleanup().
CloseResumes(f) ==
  /\ Matches(f)
  /\ LET o == ops[MapGet(pendingRequests, f.requestId)]
     IN o.cmd = "close" /\ o.state \notin Done /\ Outcome(f).kind = "ok"

\* socket.onmessage of transport s delivers frame f
HandleMessage(s, f) ==
  /\ NoDispatchPending
  /\ sockets[s] \in {"OPEN", "CLOSING"}
  /\ inbound' = f
  /\ emitted' = HandleEmits(f)
  /\ effects' = HandleEffects(f)
  /\ raised' = (Throws(f) /\ ~errorListener)
  /\ IF Matches(f)
     THEN SetReq(SettleIn([ReqState EXCEPT !.pendingRequests = MapDelete(@, f.requestId)],
                          MapGet(pendingRequests, f.requestId), Outcome(f)))
     ELSE NoReq
  /\ IF CloseResumes(f)
     THEN /\ sockets' = SocketClose(socket)
          /\ intervals' = CleanupIntervals
          /\ pingInterval' = 0
     ELSE UNCHANGED <<sockets, pingVars>>
  /\ UNCHANGED <<urlValid, socket, promises, isConnecting, reconnectAttempts,
                 reconnectTimers, errorListener, lastConnect, histVars>>

----------------------------------------------------------------------------
\* Specifications

Next ==
  \/ Connect(MaxSockets)
  \/ \E s \in DOMAIN sockets : OnOpen(s)
  \/ \E s \in DOMAIN sockets : OnError(s)
  \/ \E s \in DOMAIN sockets : OnClose(s)
  \/ \E t \in reconnectTimers : ReconnectFire(t, MaxSockets)
  \/ InitModel(MaxSockets, MaxOps)
  \/ TrainModel(MaxSockets, MaxOps)
  \/ QueryLayer(MaxSockets, MaxOps)
  \/ Ping(MaxSockets, MaxOps)
  \/ Close(MaxSockets, MaxOps)
  \/ On
  \/ Off
  \/ \E h \in intervals : PingFire(h, MaxSockets, MaxOps)
  \/ \E t \in requestTimers : RequestTimeout(t)
  \/ \E s \in DOMAIN sockets : \E f \in Frames : HandleMessage(s, f)

Spec == Init /\ [][Next]_vars

NextPair ==
  \/ Connect(PairSockets)
  \/ \E s \in DOMAIN sockets : OnOpen(s)
  \/ \E s \in DOMAIN sockets : OnError(s)
  \/ \E s \in DOMAIN sockets : OnClose(s)
  \/ InitModel(PairSockets, PairOps)
  \/ TrainModel(PairSockets, PairOps)
  \/ Close(PairSockets, PairOps)
  \/ \E t \in requestTimers : RequestTimeout(t)
  \/ \E s \in DOMAIN sockets : \E f \in Replies : HandleMessage(s, f)

SpecPair == Init /\ [][NextPair]_vars

NextConn ==
  \/ Connect(ConnSockets)
  \/ \E s \in DOMAIN sockets : OnOpen(s)
  \/ \E s \in DOMAIN sockets : OnError(s)
  \/ \E s \in DOMAIN sockets : OnClose(s)
  \/ \E t \in reconnectTimers : ReconnectFire(t, ConnSockets)
  \/ Ping(ConnSockets, ConnOps)
  \/ Close(ConnSockets, ConnOps)
  \/ On
  \/ Off
  \/ \E h \in intervals : PingFire(h, ConnSockets, ConnOps)
  \/ \E t \in requestTimers : RequestTimeout(t)
  \/ \E s \in DOMAIN sockets : \E f \in Replies : HandleMessage(s, f)

SpecConn == Init /\ [][NextConn]_vars

NextRace ==
  \/ Connect(RaceSockets)
  \/ \E s \in DOMAIN sockets : OnOpen(s)
  \/ \E s \in DOMAIN sockets : OnError(s)
  \/ \E s \in DOMAIN sockets : OnClose(s)
  \/ \E t \in reconnectTimers : ReconnectFire(t, RaceSockets)
  \/ Ping(RaceSockets, RaceOps)
  \/ Close(RaceSockets, RaceOps)
  \/ On
  \/ Off
  \/ \E h \in intervals : PingFire(h, RaceSockets, RaceOps)
  \/ \E t \in requestTimers : RequestTimeout(t)
  \/ \E s \in DOMAIN sockets : \E f \in Replies : HandleMessage(s, f)

SpecRace == Init /\ [][NextRace]_vars

NextBackoff ==
  \/ Connect(BackoffCallers)
  \/ \E s \in DOMAIN sockets : OnOpen(s)
  \/ \E s \in DOMAIN sockets : OnError(s)
  \/ \E s \in DOMAIN sockets : OnClose(s)
  \/ \E t \in reconnectTimers : ReconnectFire(t, BackoffSockets)

SpecBackoff == Init /\ [][NextBackoff]_vars

NextLive ==
  \/ Connect(LiveSockets)
  \/ \E s \in DOMAIN sockets : OnOpen(s)
  \/ \E s \in DOMAIN sockets : OnError(s)
  \/ \E s \in DOMAIN sockets : OnClose(s)
  \/ \E t \in reconnectTimers : ReconnectFire(t, LiveSockets)
  \/ InitModel(LiveSockets, LiveOps)
  \/ Close(LiveSockets, LiveOps)
  \/ On
  \/ Off
  \/ \E h \in intervals : PingFire(h, LiveSockets, LiveOps)
  \/ \E t \in requestTimers : RequestTimeout(t)
  \/ \E s \in DOMAIN sockets : \E f \in Replies : HandleMessage(s, f)

\* The transport s, once constructed, does not stay connecting for ever, and
\* the close event of a transport that failed or is closing is dispatched.
TransportCallback(s) ==
  /\ s \in DOMAIN sockets
  /\ \/ OnOpen(s)
     \/ OnError(s)
     \/ sockets[s] \in {"CLOSING", "CLOSED"} /\ OnClose(s)

\* Timers that are armed fire; transport callbacks that are due are dispatched.
Fairness ==
  /\ \A s \in 1..LiveSockets : WF_vars(TransportCallback(s))
  /\ WF_vars(\E t \in requestTimers : RequestTimeout(t))
  /\ WF_vars(\E t \in reconnectTimers : ReconnectFire(t, LiveSockets))

SpecLive == Init /\ [][NextLive]_vars /\ Fairness

NextMsg ==
  \/ Connect(MsgSockets)
  \/ \E s \in DOMAIN sockets : OnOpen(s)
  \/ \E s \in DOMAIN sockets : OnError(s)
  \/ \E s \in DOMAIN sockets : OnClose(s)
  \/ InitModel(MsgSockets, MsgOps)
  \/ TrainModel(MsgSockets, MsgOps)
  \/ On
  \/ Off
  \/ \E t \in requestTimers : RequestTimeout(t)
  \/ \E s \in DOMAIN sockets : \E f \in Frames : HandleMessage(s, f)

SpecMsg == Init /\ [][NextMsg]_vars

NextProbe ==
  \/ Connect(ProbeSockets)
  \/ \E s \in DOMAIN sockets : OnOpen(s)
  \/ \E s \in DOMAIN sockets : OnError(s)
  \/ \E s \in DOMAIN sockets : OnClose(s)
  \/ \E t \in reconnectTimers : ReconnectFire(t, ProbeSockets)
  \/ Close(ProbeSockets, ProbeOps)
  \/ On
  \/ Off
  \/ \E h \in intervals : PingFire(h, ProbeSockets, ProbeOps)
  \/ \E t \in requestTimers : RequestTimeout(t)
  \/ \E s \in DOMAIN sockets : \E f \in Replies : HandleMessage(s, f)

SpecProbe == Init /\ [][NextProbe]_vars

NextIso ==
  \/ Connect(IsoSockets)
  \/ \E s \in DOMAIN sockets : OnOpen(s)
  \/ \E s \in DOMAIN sockets : OnError(s)
  \/ \E s \in DOMAIN sockets : OnClose(s)
  \/ InitModel(IsoSockets, IsoOps)
  \/ On
  \/ \E t \in requestTimers : RequestTimeout(t)
  \/ \E s \in DOMAIN sockets : \E f \in Replies : HandleMessage(s, f)

SpecIso == Init /\ [][NextIso]_vars

NextSend ==
  \/ Connect(SendSockets)
  \/ \E s \in DOMAIN sockets : OnOpen(s)
  \/ \E s \in DOMAIN sockets : OnError(s)
  \/ \E s \in DOMAIN sockets : OnClose(s)
  \/ InitModel(SendSockets, SendOps)
  \/ On

SpecSend == Init /\ [][NextSend]_vars

NextOrder ==
  \/ Connect(OrderSockets)
  \/ \E s \in DOMAIN sockets : OnOpen(s)
  \/ \E s \in DOMAIN sockets : OnError(s)
  \/ \E s \in DOMAIN sockets : OnClose(s)
  \/ InitModel(OrderSockets, OrderOps)
  \/ TrainModel(OrderSockets, OrderOps)
  \/ \E t \in requestTimers : RequestTimeout(t)
  \/ \E s \in DOMAIN sockets : \E f \in Frames : HandleMessage(s, f)

SpecOrder == Init /\ [][NextOrder]_vars

----------------------------------------------------------------------------
\* Claims

\* The envelope of the 'message' event the last task emitted, if any
IsMessage(ev) == ev # <<>> /\ ev[1].type = "message"

\* Invocation i has a request timer armed.
HasTimer(i) == \E t \in requestTimers : t.op = i

(* C1: every reply-expecting operation completes at most once: its promise
   is settled by at most one resolve/reject call, and once it has completed,
   neither its timer nor another response with its requestId settles it
   again or changes the pending-request registry. *)
C1_CompletesAtMostOnce ==
  [][ /\ \A i \in DOMAIN ops' : ops'[i].settles <= 1
      /\ \A i \in DOMAIN ops : ops[i].state \in Done => ops'[i] = ops[i]
      /\ \A t \in requestTimers :
           (t \notin requestTimers' /\ ops[t.op].state \in Done)
             => (pendingRequests' = pendingRequests /\ settled' = <<>>)
      /\ \A i \in DOMAIN ops :
           (/\ ops[i].state \in Done
            /\ inbound'.requestId = ops[i].requestId)
             => (pendingRequests' = pendingRequests /\ settled' = <<>>)
    ]_vars

\* C1 witness: an operation was answered, its timer has fired since, and
\* another response with its requestId has just been delivered.
C1_Witness ==
  \E i \in DOMAIN ops :
    /\ ops[i].state = "resolved"
    /\ ops[i].settles = 1
    /\ ~HasTimer(i)
    /\ inbound.parses
    /\ inbound.requestId = ops[i].requestId
    /\ IsMessage(emitted)
    /\ settled = <<>>

\* The invocations whose command is sent and not yet answered or timed out
Outstanding == {i \in DOMAIN ops : ops[i].state = "pending"}

(* C2 (P1): the requestIds of the operations outstanding at the same time
   are pairwise distinct, each registered under its own key; a response
   carrying requestId r, delivered to listeners that return normally,
   settles exactly the operation registered under r in that step and leaves
   every other outstanding operation registered and unresolved. *)
C2_CorrelationUnique ==
  /\ [](\A i \in Outstanding :
          /\ [requestId |-> ops[i].requestId, op |-> i] \in pendingRequests
          /\ \A j \in Outstanding : i # j => ops[i].requestId # ops[j].requestId)
  /\ [][ (/\ inbound'.parses
          /\ ~inbound'.listenerThrows
          /\ MapHas(pendingRequests, inbound'.requestId))
           => LET r == inbound'.requestId
                  i == MapGet(pendingRequests, r)
              IN /\ Len(settled') = 1
                 /\ settled'[1].op = i
                 /\ ops[i].requestId = r
                 /\ ops'[i].state \in Done
                 /\ \A j \in Outstanding \ {i} :
                      /\ ops'[j] = ops[j]
                      /\ [requestId |-> ops[j].requestId, op |-> j] \in pendingRequests'
       ]_vars

(* C3 (P2): when the 30000 ms timer of an operation fires while the operation
   is still outstanding, the operation fails with a timeout error naming its
   commandType and its requestId is removed from the registry in that step. *)
C3_Timeout ==
  [][ \A t \in requestTimers :
        (t \notin requestTimers' /\ ops[t.op].state = "pending")
          => /\ t.delay = 30000
             /\ settled' = <<[op |-> t.op,
                              result |-> [kind |-> "Timeout", info |-> ops[t.op].cmd,
                                          data |-> NoData]]>>
             /\ ops'[t.op].state = "rejected"
             /\ ~MapHas(pendingRequests', ops[t.op].requestId)
    ]_vars

\* C3 witness: an operation has just failed with the timeout error.
C3_Witness ==
  \E i \in DOMAIN ops :
    /\ ops[i].state = "rejected"
    /\ ~HasTimer(i)
    /\ settled = <<[op |-> i, result |-> Err("Timeout", ops[i].cmd)]>>
    /\ ~MapHas(pendingRequests, ops[i].requestId)

(* C4: an inbound envelope whose requestId matches no pending request settles
   no operation and leaves the registry unchanged, and is still published as
   a 'message' event, followed by the train event its commandType and status
   call for. *)
C4_Unmatched ==
  [][ (inbound'.parses /\ ~MapHas(pendingRequests, inbound'.requestId))
        => LET f == inbound' IN
           /\ settled' = <<>>
           /\ ops' = ops
           /\ pendingRequests' = pendingRequests
           /\ emitted' # <<>>
           /\ emitted'[1].type = "message"
           /\ emitted'[1].envelope.requestId = f.requestId
           /\ (f.commandType = "train" /\ f.data.present /\ ~f.listenerThrows)
                => /\ f.data.status = "in_progress"
                        => emitted' = <<emitted'[1], Event("train_progress", f.data)>>
                   /\ f.data.status = "completed"
                        => emitted' = <<emitted'[1], Event("train_completed", f.data)>>
    ]_vars

\* C4 witness: a response for a request that has already timed out has just
\* been delivered: a 'message' event and no resolution.
C4_Witness ==
  \E i \in DOMAIN ops :
    /\ ops[i].state = "rejected"
    /\ ops[i].requestId # 0
    /\ ~MapHas(pendingRequests, ops[i].requestId)
    /\ inbound.parses
    /\ inbound.requestId = ops[i].requestId
    /\ IsMessage(emitted)
    /\ settled = <<>>

(* C5: no operation hangs for ever: with timers and transport callbacks
   fired fairly, every invocation of a reply-expecting operation is
   eventually completed, by success or by failure. *)
C5_NoHang ==
  \A i \in 1..LiveOps :
    (i \in DOMAIN ops) ~> (i \in DOMAIN ops /\ ops[i].state \in Done)

(* C6 (P3, open): a connect() call made while the connection is open, by a
   caller or by the reconnect timer, returns an already-resolved promise,
   constructs no transport and leaves the connection, the reconnect counter
   and the ping interval as they were. *)
C6_ConnectWhileOpen ==
  [][ (/\ isConnected
       /\ \/ Connect(ConnSockets)
          \/ \E t \in reconnectTimers : ReconnectFire(t, ConnSockets))
        => /\ lastConnect' = 0
           /\ sockets' = sockets
           /\ socket' = socket
           /\ promises' = promises
           /\ isConnecting' = isConnecting
           /\ reconnectAttempts' = reconnectAttempts
           /\ pingInterval' = pingInterval
           /\ intervals' = intervals
    ]_vars

\* C6 witness: connect() has just returned while the connection is open and
\* its ping interval is running.
C6_Witness ==
  /\ isConnected
  /\ lastConnect = 0
  /\ pingInterval = socket
  /\ intervals = {socket}
  /\ Len(sockets) = 1

(* C7 (P3, connecting): while the transport of a connect attempt is still
   connecting, no step constructs another transport, and a caller's connect()
   is handed the promise of that attempt, still pending. *)
C7_ConnectJoins ==
  [][ \A s \in DOMAIN sockets :
        sockets[s] = "CONNECTING"
          => /\ Len(sockets') = Len(sockets)
             /\ Connect(RaceSockets) => (lastConnect' = s /\ promises[s] = "pending")
    ]_vars

\* The transports that are connecting or open
Live == {s \in DOMAIN sockets : sockets[s] \in {"CONNECTING", "OPEN"}}

(* C8: in every reachable state at most one transport constructed by the
   client is connecting or open. *)
C8_OneLiveTransport == Cardinality(Live) <= 1

(* C9 (P4): the Nth consecutive transport closure since the last open, for
   N = 1..5, increments the attempt counter to N and arms one reconnect timer
   of delay 1000 * 2^(N-1): 1000, 2000, 4000, 8000, 16000. *)
C9_BackoffSchedule ==
  [][ (closures' = closures + 1 /\ closures' <= 5)
        => LET N == closures'
               armed == reconnectTimers' \ reconnectTimers
           IN /\ reconnectAttempts' = N
              /\ Cardinality(armed) = 1
              /\ \A t \in armed :
                   /\ t.delay = 1000 * Pow2(N - 1)
                   /\ t.delay = <<1000, 2000, 4000, 8000, 16000>>[N]
    ]_vars

\* C9 witness: the fifth consecutive closure has armed the 16000 ms timer.
C9_Witness ==
  /\ closures = 5
  /\ reconnectAttempts = 5
  /\ \E t \in reconnectTimers : t.delay = 16000

(* C10: the attempt counter stays in 0..5 and at most five reconnects are
   scheduled between two opens; a transport closure at counter 5 arms no
   reconnect timer, constructs no transport and leaves the counter at 5. *)
C10_ReconnectCap ==
  /\ [](reconnectAttempts \in 0..5 /\ scheduled <= 5)
  /\ [][ (reconnectAttempts = 5 /\ closures' = closures + 1)
          => /\ reconnectTimers' = reconnectTimers
             /\ Len(sockets') = Len(sockets)
             /\ reconnectAttempts' = 5
       ]_vars

\* C10 witness: a sixth consecutive closure has happened and no further
\* reconnect is armed.
C10_Witness ==
  /\ closures = 6
  /\ reconnectAttempts = 5
  /\ scheduled = 5
  /\ reconnectTimers = {}

\* Transport s has just opened / has just dispatched its close event.
Opens(s) == sockets[s] = "CONNECTING" /\ sockets'[s] = "OPEN"
Closes(s) == sockets[s] # "DONE" /\ sockets'[s] = "DONE"

(* C11: every transport-open resets the attempt counter to 0, starts a ping
   interval and makes it the client's, emits 'connected' and resolves the
   promise of that connect attempt; the first closure after an open finds
   the counter at 0, moves it to 1 and arms a reconnect with the base delay
   of 1000. *)
C11_OpenResets ==
  [][ \A s \in DOMAIN sockets :
        /\ Opens(s)
             => /\ reconnectAttempts' = 0
                /\ pingInterval' = s
                /\ s \in intervals' /\ s \notin intervals
                /\ emitted' = <<Event("connected", NoData)>>
                /\ promises[s] = "pending"
                /\ promises'[s] = "resolved"
                /\ \A i \in Waiters(s) : ops'[i].state # "connecting"
        /\ (Closes(s) /\ closures = 0)
             => /\ reconnectAttempts = 0
                /\ reconnectAttempts' = 1
                /\ maxReconnectAttempts - reconnectAttempts = 5
                /\ reconnectTimers' \ reconnectTimers = {[id |-> s, delay |-> 1000]}
    ]_vars

\* C11 witness: after a closure and a reconnection the second transport has
\* closed in its turn, and the reconnect it armed has the base delay.
C11_Witness ==
  /\ Len(sockets) >= 2
  /\ sockets[1] = "DONE"
  /\ sockets[2] = "DONE"
  /\ promises[2] = "resolved"
  /\ reconnectAttempts = 1
  /\ [id |-> 2, delay |-> 1000] \in reconnectTimers
  /\ emitted = <<Event("disconnected", NoData)>>

(* C12: every transport-close, in whatever state it occurs, leaves no ping
   interval running and none held by the client, emits 'disconnected', and
   arms one reconnect timer unless the attempt counter has reached 5, in
   which case it arms none. *)
C12_CloseStopsProber ==
  [][ \A s \in DOMAIN sockets :
        Closes(s)
          => /\ pingInterval' = 0
             /\ intervals' = {}
             /\ emitted' = <<Event("disconnected", NoData)>>
             /\ IF reconnectAttempts < 5
                THEN Cardinality(reconnectTimers' \ reconnectTimers) = 1
                ELSE reconnectTimers' = reconnectTimers
    ]_vars

\* The events of type t among evs, in order
EventsOf(evs, t) == SelectSeq(evs, LAMBDA e : e.type = t)

\* Frame f is a training envelope of status st.
IsTrain(f, st) ==
  f.parses /\ f.commandType = "train" /\ f.data.present /\ f.data.status = st

(* C13 (P5): an inbound envelope with commandType "train" and status
   "in_progress" emits exactly one 'train_progress' event with its payload
   and no 'train_completed'; status "completed" emits exactly one
   'train_completed' with its payload and no 'train_progress'; any other
   status or commandType emits neither, and so does every other task; all
   this whether or not the requestId matches a pending request. Listeners
   return normally. *)
C13_TrainFanOut ==
  [][ ~inbound'.listenerThrows
        => LET f == inbound' IN
           /\ EventsOf(emitted', "train_progress") =
                IF IsTrain(f, "in_progress") THEN <<Event("train_progress", f.data)>>
                ELSE <<>>
           /\ EventsOf(emitted', "train_completed") =
                IF IsTrain(f, "completed") THEN <<Event("train_completed", f.data)>>
                ELSE <<>>
    ]_vars

\* C13 witness: an in-progress training response that matched a pending
\* request has been handled: one train_progress event, and a resolution.
C13_Witness ==
  /\ IsTrain(inbound, "in_progress")
  /\ emitted = <<MessageEvent(Envelope(inbound)), Event("train_progress", inbound.data)>>
  /\ Len(settled) = 1
  /\ ops[settled[1].op].requestId = inbound.requestId

\* The handler is handed a parseable envelope that carries a data payload
\* and the requestId of a pending request, and its listeners return normally.
MatchedWithData ==
  /\ inbound'.parses
  /\ ~inbound'.listenerThrows
  /\ inbound'.data.present
  /\ MapHas(pendingRequests, inbound'.requestId)

(* C14 (P6): a response whose requestId matches a pending request and whose
   data.status is "error" rejects exactly that operation with an error
   carrying data.message, or "Unknown error" when the message is empty, and
   removes the request; with any other status it resolves that operation
   with the payload. No other operation changes. *)
C14_RemoteError ==
  [][ MatchedWithData
        => LET f == inbound'
               i == MapGet(pendingRequests, f.requestId)
           IN /\ IF f.data.status = "error"
                 THEN /\ settled' = <<[op |-> i,
                                       result |-> [kind |-> "Remote",
                                                   info |-> IF f.data.message # ""
                                                            THEN f.data.message
                                                            ELSE "Unknown error",
                                                   data |-> NoData]]>>
                      /\ ops'[i].state = "rejected"
                 ELSE /\ settled' = <<[op |-> i,
                                       result |-> [kind |-> "ok", info |-> "",
                                                   data |-> f.data]]>>
                      /\ ops'[i].state = "resolved"
              /\ ~MapHas(pendingRequests', f.requestId)
              /\ \A j \in DOMAIN ops \ {i} : ops'[j] = ops[j]
    ]_vars

\* C14 witness: an operation has just been rejected with the message "X" of
\* an error response.
C14_Witness ==
  \E i \in DOMAIN ops :
    /\ ops[i].state = "rejected"
    /\ inbound.data = Data("error", "X")
    /\ inbound.requestId = ops[i].requestId
    /\ settled = <<[op |-> i, result |-> Err("Remote", "X")]>>
    /\ ~MapHas(pendingRequests, ops[i].requestId)

(* C15 (first match wins): the first response bearing the requestId of a
   pending request settles it in that step whatever its status; an
   "in_progress" train response echoing the requestId of a trainModel call
   resolves the call with the in-progress payload; a later response with the
   same requestId settles nothing and changes no registry entry, a
   "completed" train one producing only the 'message' and 'train_completed'
   events. *)
C15_FirstMatchWins ==
  [][ LET f == inbound' IN
      /\ MatchedWithData
           => LET i == MapGet(pendingRequests, f.requestId)
              IN /\ ops[i].state = "pending"
                 /\ Len(settled') = 1
                 /\ settled'[1].op = i
                 /\ ops'[i].state \in Done
                 /\ (ops[i].cmd = "train" /\ IsTrain(f, "in_progress"))
                      => /\ settled'[1].result = Ok(f.data)
                         /\ ops'[i].state = "resolved"
      /\ \A i \in DOMAIN ops :
           (ops[i].state \in Done /\ ops[i].requestId # 0
              /\ f.requestId = ops[i].requestId)
             => /\ settled' = <<>>
                /\ ops' = ops
                /\ pendingRequests' = pendingRequests
                /\ (IsTrain(f, "completed") /\ ~f.listenerThrows)
                     => emitted' = <<MessageEvent(Envelope(f)),
                                     Event("train_completed", f.data)>>
    ]_vars

\* C15 witness: a trainModel call has just been resolved with the payload of
\* an in-progress response.
C15_Witness ==
  \E i \in DOMAIN ops :
    /\ ops[i].cmd = "train"
    /\ ops[i].state = "resolved"
    /\ inbound.commandType = "train"
    /\ inbound.requestId = ops[i].requestId
    /\ settled = <<[op |-> i, result |-> Ok(Data("in_progress", ""))]>>



(* C16 (scenario): with the connection open and a trainModel call
   outstanding, a "train" response echoing its requestId with status
   "completed" resolves the call with the response's data and emits one
   'train_completed' event with the same payload, both in the handling of
   that frame. *)
C16_TrainCompleted ==
  [][ \A i \in DOMAIN ops :
        LET f == inbound' IN
        (/\ ops[i].cmd = "train"
         /\ ops[i].state = "pending"
         /\ IsTrain(f, "completed")
         /\ f.requestId = ops[i].requestId
         /\ ~f.listenerThrows)
          => /\ settled' = <<[op |-> i, result |-> Ok(f.data)]>>
             /\ ops'[i].state = "resolved"
             /\ EventsOf(emitted', "train_completed") = <<Event("train_completed", f.data)>>
             /\ settled'[1].result.data = emitted'[2].data
             /\ ~MapHas(pendingRequests', f.requestId)
    ]_vars

\* C16 witness: connect(), the transport opened, trainModel() on the open
\* connection, and the completed response has just been handled.
C16_Witness ==
  /\ Len(sockets) = 1
  /\ Len(ops) = 1
  /\ lastConnect = 0
  /\ ops[1].cmd = "train"
  /\ ops[1].state = "resolved"
  /\ ops[1].sentOn = 1
  /\ settled = <<[op |-> 1, result |-> Ok(Data("completed", ""))]>>
  /\ emitted = <<MessageEvent(Envelope(inbound)), Event("train_completed", Data("completed", ""))>>

\* Invocation i, a close command, completes in this step.
CloseCompletes(i) ==
  ops[i].cmd = "close" /\ ops[i].state \notin Done /\ ops'[i].state \in Done

(* C17: when the close command of a close() call completes, by success or
   by failure (error response, timeout), the ping interval the client holds
   is stopped and the client holds none. *)
C17_CloseReleases ==
  [][ \A i \in DOMAIN ops :
        CloseCompletes(i) => (pingInterval' = 0 /\ pingInterval \notin intervals')
    ]_vars

(* C18: a close() on an open connection writes its close command to the
   transport, and when that command completes, whatever the outcome, the
   transport it was written to has been asked to close. *)
C18_CloseClosesTransport ==
  [][ \A i \in DOMAIN ops :
        CloseCompletes(i)
          => /\ ops[i].sentOn # 0
             /\ sockets'[ops[i].sentOn] \in {"CLOSING", "CLOSED", "DONE"}
    ]_vars

\* The step is the dispatch of a transport's close event or a close() call.
Disconnects ==
  \/ \E s \in DOMAIN sockets : Closes(s)
  \/ Close(PairSockets, PairOps)

\* A registry entry disappears only when its own request timer fires or an
\* envelope with its requestId is handled.
EndsByTimeoutOrResponse ==
  \A e \in pendingRequests \ pendingRequests' :
    \/ \E t \in requestTimers \ requestTimers' : t.requestId = e.requestId
    \/ inbound'.parses /\ inbound'.requestId = e.requestId

(* C19 as stated: a transport-close or a close() call leaves the pending
   request registry unchanged and fails no outstanding operation, and every
   request ends only by its own timeout or by a matching response. *)
C19_RegistryUnchanged ==
  [][ /\ Disconnects
           => /\ pendingRequests' = pendingRequests
              /\ \A i \in Outstanding : ops'[i] = ops[i]
      /\ EndsByTimeoutOrResponse
    ]_vars

(* C19 amended: a transport-close or a close() call removes no entry of the
   pending request registry and fails no outstanding operation (close() on
   an open connection adds the entry of its own close command), and every
   request ends only by its own timeout or by a matching response. *)
C19_DisconnectKeepsRequests ==
  [][ /\ Disconnects
           => /\ pendingRequests \subseteq pendingRequests'
              /\ pendingRequests' \ pendingRequests \subseteq
                   {e \in pendingRequests' : ops'[e.op].cmd = "close"}
              /\ \A i \in Outstanding : ops'[i] = ops[i]
              /\ \A k \in DOMAIN settled' : settled'[k].op \notin Outstanding
      /\ EndsByTimeoutOrResponse
    ]_vars

\* C19 witness: with a request outstanding close() was called, then the
\* transport closed: the request and the close command are still registered.
C19_Witness ==
  \E i, j \in DOMAIN ops :
    /\ ops[i].cmd # "close" /\ ops[i].state = "pending"
    /\ ops[j].cmd = "close" /\ ops[j].state = "pending"
    /\ sockets[ops[i].sentOn] = "DONE"
    /\ emitted = <<Event("disconnected", NoData)>>
    /\ pendingRequests = {[requestId |-> ops[i].requestId, op |-> i],
                          [requestId |-> ops[j].requestId, op |-> j]}

(* C20: a frame that fails to parse is contained, with or without an 'error'
   listener: the handler emits exactly one 'error' event and nothing else,
   settles no operation, leaves the registry, the timers and the connection
   as they were, and does not throw. *)
C20_MalformedContained ==
  [][ inbound' = Malformed
        => /\ emitted' = <<Event("error", NoData)>>
           /\ ~raised'
           /\ settled' = <<>>
           /\ UNCHANGED <<reqVars, connVars, pingVars, reconnectAttempts, reconnectTimers>>
    ]_vars

\* The liveness probe i fails in this step: its ping times out or is answered
\* with status "error".
ProbeFails(i) ==
  /\ ops[i].cmd = "ping"
  /\ ops[i].state = "pending"
  /\ ops'[i].state = "rejected"
  /\ \E k \in DOMAIN settled' :
       settled'[k].op = i /\ settled'[k].result.kind \in {"Timeout", "Remote"}

\* The step leaves the transports, the reconnect counter and the reconnect
\* timers as they were.
NoReconnection ==
  /\ sockets' = sockets
  /\ socket' = socket
  /\ reconnectAttempts' = reconnectAttempts
  /\ reconnectTimers' = reconnectTimers

\* Reconnects are scheduled by the close callback of a transport only.
OnlyCloseSchedules ==
  (reconnectTimers' \ reconnectTimers # {} \/ reconnectAttempts' > reconnectAttempts)
    => \E s \in DOMAIN sockets : Closes(s)

(* C21 as stated: a liveness probe that fails, by timeout or by an error
   response, is reported by an 'error' event; the failure closes no
   transport, leaves the reconnect counter alone, schedules no reconnect and
   opens no transport; reconnects are scheduled by transport callbacks only. *)
C21_ProbeFailureEmitsError ==
  [][ /\ \A i \in DOMAIN ops :
           ProbeFails(i)
             => (EventsOf(emitted', "error") # <<>> /\ NoReconnection)
      /\ OnlyCloseSchedules
    ]_vars

(* C21 amended: a liveness probe that fails, by timeout or by an error
   response, emits no 'error' event (the interval's catch handler only logs
   it); the failure closes no transport, leaves the reconnect counter alone,
   schedules no reconnect and opens no transport; reconnects are scheduled
   by the close callback of a transport only. *)
C21_ProbeFailureIsolated ==
  [][ /\ \A i \in DOMAIN ops :
           ProbeFails(i)
             => /\ EventsOf(emitted', "error") = <<>>
                /\ ~raised'
                /\ NoReconnection
                /\ UNCHANGED <<promises, isConnecting, pingVars>>
      /\ OnlyCloseSchedules
    ]_vars

\* C21 witness: the ping issued by the interval of the open transport has
\* just timed out; the connection is still open and its interval running.
C21_Witness ==
  /\ Len(ops) = 1
  /\ ops[1].cmd = "ping"
  /\ settled = <<[op |-> 1, result |-> Err("Timeout", "ping")]>>
  /\ isConnected
  /\ pingInterval = socket
  /\ socket \in intervals
  /\ reconnectTimers = {}
  /\ emitted = <<>>

(* C22: in every reachable state at most one ping interval timer is
   running: starting the prober leaves no earlier interval behind. *)
C22_OnePingInterval == Cardinality(intervals) <= 1

(* C23: in every reachable state at most one reconnect timer is pending,
   also when a caller's connect() fails while the timer armed by an earlier
   transport-close has not fired yet. *)
C23_OneReconnectTimer == Cardinality(reconnectTimers) <= 1

\* close() has been called on the connection of transport s: its close command
\* was written to s.
CloseCalledOn(s) == \E i \in DOMAIN ops : ops[i].cmd = "close" /\ ops[i].sentOn = s

(* C24: in every reachable state where isConnected() is true and close()
   has not been called on that connection, a ping interval timer is running;
   the close callback of an earlier transport does not stop the prober of
   the transport that is open now. *)
C24_ProberArmed ==
  (isConnected /\ ~CloseCalledOn(socket)) => intervals # {}

\* Operation i fails in this step with an error of one of the kinds.
OpFails(i, kinds) ==
  /\ i \in DOMAIN ops => ops[i].state \notin Done
  /\ ops'[i].state = "rejected"
  /\ \E k \in DOMAIN settled' : settled'[k].op = i /\ settled'[k].result.kind \in kinds

(* C25 (error isolation): a Timeout or Remote failure of one operation
   settles that operation alone and removes its registry entry alone: every
   other operation and every other registry entry is as before, and so are
   the transports, the connect promises, the reconnect counter and timers
   and the ping interval. A NotConnected failure, raised when the awaited
   connect() resolves while this.socket is not open, registers nothing and
   leaves every pending request registered and unresolved; the connection
   changes in that step only by what the open callback that resolved the
   connect() does. *)
C25_ErrorIsolation ==
  [][ \A i \in DOMAIN ops' :
        /\ OpFails(i, {"Timeout", "Remote"})
             => /\ settled' = <<[op |-> i, result |-> settled'[1].result]>>
                /\ \A j \in DOMAIN ops \ {i} : ops'[j] = ops[j]
                /\ pendingRequests' = {e \in pendingRequests : e.op # i}
                /\ UNCHANGED <<connVars, reconnectAttempts, reconnectTimers, pingVars>>
        /\ OpFails(i, {"NotConnected"})
             => /\ ops'[i].requestId = 0
                /\ pendingRequests' = pendingRequests
                /\ \A j \in Outstanding :
                     /\ ops'[j] = ops[j]
                     /\ [requestId |-> ops[j].requestId, op |-> j] \in pendingRequests'
                /\ \E s \in DOMAIN sockets :
                     /\ Opens(s)
                     /\ sockets' = [sockets EXCEPT ![s] = "OPEN"]
                     /\ socket' = socket
                     /\ reconnectTimers' = reconnectTimers
    ]_vars

\* C25 witness: with one request pending, a second operation has just failed
\* with the not-connected error; the first is still registered and pending.
C25_Witness ==
  /\ Len(ops) = 2
  /\ ops[1].state = "pending"
  /\ pendingRequests = {[requestId |-> ops[1].requestId, op |-> 1]}
  /\ settled = <<[op |-> 2, result |-> Err("NotConnected", "WebSocket is not connected")]>>

\* Transport s, which never reached open, has its close event dispatched in
\* this step: the connect attempt s has failed.
FailsBeforeOpen(s) == Closes(s) /\ promises[s] # "resolved"

(* C26: when a transport fails before it reaches open, then once its close
   event is dispatched the promise of that connect attempt is rejected and no
   caller is left waiting on it, the client is not open, and the step
   constructs no new transport. *)
C26_ConnectFailureRejects ==
  [][ \A s \in DOMAIN sockets :
        FailsBeforeOpen(s)
          => /\ promises'[s] = "rejected"
             /\ \A i \in DOMAIN ops : ops[i].wait = s => ops'[i].state # "connecting"
             /\ ~isConnected'
             /\ Len(sockets') = Len(sockets)
    ]_vars

\* Invocation i has neither written an envelope nor registered a request.
NothingSent(i) ==
  /\ ops'[i].requestId = 0
  /\ ops'[i].sentOn = 0
  /\ \A e \in pendingRequests' : e.op # i
  /\ \A t \in requestTimers' : t.op # i

(* C27: an operation issued while the connection is not open calls connect()
   and waits for the promise it returns, sending nothing before; when that
   promise is rejected the operation fails with the connect error, and when
   it is resolved while this.socket is not open the operation fails with the
   not-connected error: in both cases no envelope is written and no pending
   request is registered. An envelope is written to an open transport only. *)
C27_SendNeedsConnection ==
  [][ \A i \in DOMAIN ops' :
        LET new == i \notin DOMAIN ops
            p == IF new THEN lastConnect' ELSE ops[i].wait
        IN /\ (new /\ ~isConnected)
                => /\ p > 0
                   /\ p = IF isConnecting THEN connectionPromise ELSE Len(promises')
                   /\ ops'[i].state \in {"connecting", "rejected"}
                   /\ NothingSent(i)
           /\ ((new \/ ops[i].state = "connecting") /\ p > 0)
                => /\ promises'[p] = "pending"
                        => (ops'[i].state = "connecting" /\ NothingSent(i))
                   /\ promises'[p] = "rejected"
                        => /\ ops'[i].state = "rejected"
                           /\ \E k \in DOMAIN settled' :
                                /\ settled'[k].op = i
                                /\ settled'[k].result.kind = "Transport"
                           /\ NothingSent(i)
                   /\ (promises'[p] = "resolved" /\ ~isConnected')
                        => /\ ops'[i].state = "rejected"
                           /\ \E k \in DOMAIN settled' :
                                settled'[k] = [op |-> i,
                                               result |-> [kind |-> "NotConnected",
                                                           info |-> "WebSocket is not connected",
                                                           data |-> NoData]]
                           /\ NothingSent(i)
           /\ ((new \/ ops[i].state = "connecting") /\ ops'[i].state = "pending")
                => /\ isConnected'
                   /\ ops'[i].sentOn = socket'
    ]_vars

\* C27 witness: an operation issued while the transport was connecting has
\* just failed with the connect error, the transport having closed before it
\* opened; nothing was sent or registered.
C27_Witness ==
  /\ Len(ops) = 1
  /\ ops[1].state = "rejected"
  /\ ops[1].requestId = 0
  /\ ops[1].sentOn = 0
  /\ settled = <<[op |-> 1, result |-> Err("Transport", "closed")]>>
  /\ pendingRequests = {}
  /\ requestTimers = {}
  /\ uuidCount = 0
  /\ ~isConnected

(* C28 (registry invariant): in every reachable state the pending-request
   registry holds exactly one entry for each operation whose command was
   sent and which has not completed, under that operation's requestId, no
   two entries under the same requestId, and no entry for an operation that
   has succeeded or failed or has not sent yet. *)
C28_RegistryExact ==
  /\ pendingRequests = {[requestId |-> ops[i].requestId, op |-> i] : i \in Outstanding}
  /\ \A e1, e2 \in pendingRequests : e1.requestId = e2.requestId => e1 = e2
  /\ \A i, j \in Outstanding : ops[i].requestId = ops[j].requestId => i = j
  /\ \A i \in DOMAIN ops :
       ops[i].state # "pending" => \A e \in pendingRequests : e.op # i
  /\ \A i \in DOMAIN ops :
       ops[i].state \in Done => ~MapHas(pendingRequests, ops[i].requestId)

\* C28 witness: of two operations sent, the first has been answered and the
\* second is outstanding: the registry holds the entry of the second alone.
C28_Witness ==
  /\ Len(ops) = 2
  /\ ops[1].state = "resolved"
  /\ ops[1].requestId = 1
  /\ ops[2].state = "pending"
  /\ pendingRequests = {[requestId |-> 2, op |-> 2]}

(* C29: operations complete in the order their responses arrive, not the
   order they were issued. With A issued before B and both outstanding, the
   delivery of a response carrying B's requestId (to listeners that return
   normally) completes B in that step and leaves A pending and registered;
   A leaves the pending state only in a step that handles a response with
   A's requestId or fires A's timer. *)
C29_ArrivalOrder ==
  [][ \A a, b \in Outstanding :
        a < b
          => /\ (/\ inbound'.parses
                 /\ ~inbound'.listenerThrows
                 /\ inbound'.requestId = ops[b].requestId)
                  => /\ ops'[b].state \in Done
                     /\ ops'[a] = ops[a]
                     /\ [requestId |-> ops[a].requestId, op |-> a] \in pendingRequests'
             /\ ops'[a].state # "pending"
                  => \/ inbound'.parses /\ inbound'.requestId = ops[a].requestId
                     \/ \E t \in requestTimers \ requestTimers' : t.op = a
    ]_vars

(* C30: isConnected() is true exactly when the transport this.socket names
   is open, and whenever a 'connected' event is emitted isConnected() is
   true: the transport that opened is the client's current transport. *)
C30_ConnectedIsCurrent ==
  /\ [](isConnected <=> (socket \in DOMAIN sockets /\ sockets[socket] = "OPEN"))
  /\ [][ EventsOf(emitted', "connected") # <<>>
          => /\ isConnected'
             /\ \A s \in DOMAIN sockets : Opens(s) => s = socket'
       ]_vars

(* C31: every parseable inbound envelope whose requestId matches a pending
   request completes the operation and removes the request in the handling
   of that frame, whatever its commandType and payload, a "train" envelope
   without data and a failing 'message' listener included. *)
C31_MatchAlwaysCompletes ==
  [][ (inbound'.parses /\ MapHas(pendingRequests, inbound'.requestId))
        => LET i == MapGet(pendingRequests, inbound'.requestId)
           IN /\ ops'[i].state \in Done
              /\ ~MapHas(pendingRequests', inbound'.requestId)
              /\ \E k \in DOMAIN settled' : settled'[k].op = i
    ]_vars

(* C32: every connect() completion settles: once the transport of a connect
   attempt has opened, or has failed and had its close event dispatched, the
   promise handed to the callers of that attempt is resolved or rejected, and
   none of them is still suspended on it. *)
C32_ConnectSettles ==
  \A s \in DOMAIN sockets :
    sockets[s] \in {"OPEN", "CLOSING", "DONE", "NONE"}
      => /\ promises[s] # "pending"
         /\ Waiters(s) = {}

\* The labels of effects that are emitted events
EventLabels == {"message", "train_progress", "train_completed", "error"}

(* C33: within the handling of one inbound frame the effects are ordered:
   the 'message' event first, then the 'train_progress' or 'train_completed'
   event if there is one, and only then the resolution and the removal of the
   matching pending request; a frame is handled entirely within the task that
   delivers it, one frame per task. *)
C33_HandlingOrder ==
  [][ LET e == effects' IN
      /\ inbound' = NoFrame => e = <<>>
      /\ inbound' # NoFrame
           => /\ inbound'.parses => (e # <<>> /\ e[1] = "message")
              /\ \A k \in DOMAIN e :
                   /\ e[k] = "message" => k = 1
                   /\ e[k] \in {"train_progress", "train_completed"}
                        => (k = 2 /\ e[1] = "message")
                   /\ e[k] = "settle"
                        => /\ k = Len(e) - 1
                           /\ e[k + 1] = "delete"
                           /\ \A j \in 1..(k - 1) :
                                e[j] \in {"message", "train_progress", "train_completed"}
              /\ [k \in DOMAIN emitted' |-> emitted'[k].type]
                   = SelectSeq(e, LAMBDA x : x \in EventLabels)
              /\ Len(SelectSeq(e, LAMBDA x : x = "settle")) = Len(settled')
              /\ Len(SelectSeq(e, LAMBDA x : x = "delete"))
                   = Cardinality(pendingRequests \ pendingRequests')
    ]_vars

\* C33 witness: a completed training response that matched a pending request
\* has been handled: message, train_completed, resolution, removal.
C33_Witness ==
  /\ effects = <<"message", "train_completed", "settle", "delete">>
  /\ IsTrain(inbound, "completed")
  /\ Len(settled) = 1
  /\ ops[settled[1].op].state = "resolved"
  /\ pendingRequests = {}

\* Operation i is outstanding and the transport its command was written to
\* has closed and had its close event dispatched.
Orphaned(i) == ops[i].state = "pending" /\ sockets[ops[i].sentOn] = "DONE"

(* C34: a pending request outlives the transport it was sent on: when that
   transport has closed and the client has reconnected, a response carrying
   the request's requestId that arrives on the new transport (delivered to
   listeners that return normally) completes the original operation and
   removes the request. *)
C34_OutlivesTransport ==
  [][ \A i \in DOMAIN ops :
        (/\ Orphaned(i)
         /\ isConnected
         /\ inbound'.parses
         /\ ~inbound'.listenerThrows
         /\ inbound'.requestId = ops[i].requestId)
          => /\ ops'[i].state \in Done
             /\ \E k \in DOMAIN settled' : settled'[k].op = i
             /\ ~MapHas(pendingRequests', ops[i].requestId)
    ]_vars

(* C35: close() is not terminal. The close event of a transport that
   close() was called on is handled like any other: 'disconnected' is
   emitted and, the attempt counter being below 5, the counter is incremented
   and one reconnect timer is armed with the backoff delay. When that timer
   fires and the client is neither open nor connecting, connect() constructs
   a new transport, which becomes this.socket; and a transport that opens
   after a close() starts the ping interval again. *)
C35_CloseNotTerminal ==
  [][ /\ \A s \in DOMAIN sockets :
           (Closes(s) /\ CloseCalledOn(s))
             => /\ emitted' = <<Event("disconnected", NoData)>>
                /\ IF reconnectAttempts < 5
                   THEN /\ reconnectAttempts' = reconnectAttempts + 1
                        /\ reconnectTimers' \ reconnectTimers =
                             {[id |-> s, delay |-> 1000 * Pow2(reconnectAttempts)]}
                   ELSE reconnectTimers' = reconnectTimers
      /\ \A t \in reconnectTimers \ reconnectTimers' :
           (CloseCalledOn(t.id) /\ ~isConnected /\ ~isConnecting)
             => /\ Len(sockets') = Len(sockets) + 1
                /\ socket' = Len(sockets')
                /\ sockets'[socket'] = "CONNECTING"
                /\ promises'[socket'] = "pending"
      /\ \A s \in DOMAIN sockets :
           (Opens(s) /\ \E c \in DOMAIN sockets : CloseCalledOn(c) /\ sockets[c] = "DONE")
             => /\ pingInterval' = s
                /\ s \in intervals'
                /\ s = socket => isConnected'
    ]_vars

\* C35 witness: close() was acknowledged and transport 1 closed; the reconnect
\* timer it armed has fired and transport 2, which that connect() made, has
\* opened: the client is open again with its ping interval running.
C35_Witness ==
  /\ Len(sockets) = 2
  /\ CloseCalledOn(1)
  /\ sockets[1] = "DONE"
  /\ lastConnect = 2
  /\ reconnectTimers = {}
  /\ isConnected
  /\ socket = 2
  /\ pingInterval = 2
  /\ intervals = {2}
  /\ reconnectAttempts = 0
  /\ emitted = <<Event("connected", NoData)>>

(* C36: a close() call made while the connection is not open (no transport,
   or the current transport connecting, closing or closed) writes nothing,
   registers no pending request and settles nothing, leaves every transport
   and the connect attempt in progress as they are and every reconnect timer
   armed; it changes only the ping interval, by stopping the one the client
   holds. *)
C36_CloseWhenNotOpen ==
  [][ (~isConnected /\ Close(ConnSockets, ConnOps))
        => /\ UNCHANGED <<sockets, socket, promises, isConnecting>>
           /\ UNCHANGED <<reconnectAttempts, reconnectTimers>>
           /\ UNCHANGED <<ops, pendingRequests, requestTimers, uuidCount>>
           /\ emitted' = <<>>
           /\ settled' = <<>>
           /\ ~raised'
           /\ pingInterval' = 0
           /\ intervals' = intervals \ {pingInterval}
    ]_vars

\* C36 witness: the open transport failed and, between its error and its
\* close event, a listener called close(): the ping interval is stopped and
\* the transport still has its close event to come.
C36_Witness ==
  /\ Len(sockets) = 1
  /\ sockets[1] = "CLOSED"
  /\ promises[1] = "resolved"
  /\ ops = <<>>
  /\ pingInterval = 0
  /\ intervals = {}
  /\ reconnectTimers = {}

\* The envelope that differs from f in its messageType only
OtherKind(f) ==
  [f EXCEPT !.messageType = IF @ = "command" THEN "response" ELSE "command"]

\* The events evs with the messageType of the envelope they carry left out
WithoutKind(evs) ==
  [k \in DOMAIN evs |-> [evs[k] EXCEPT !.envelope.messageType = ""]]

(* C37: the messageType of an inbound envelope has no influence on its
   handling: what the delivery of a parsed envelope emits (the envelope the
   'message' event carries compared without its messageType), the statements
   that take effect, the settlement it makes, the registry it leaves and
   whether it throws are what the client would do, from the same state, for
   the envelope that differs in messageType only. *)
C37_KindIgnored ==
  [][ inbound'.parses
        => LET g == OtherKind(inbound') IN
           /\ WithoutKind(emitted') = WithoutKind(HandleEmits(g))
           /\ effects' = HandleEffects(g)
           /\ raised' = (Throws(g) /\ ~errorListener)
           /\ settled' = IF Matches(g)
                         THEN <<[op |-> MapGet(pendingRequests, g.requestId),
                                 result |-> Outcome(g)]>>
                         ELSE <<>>
           /\ pendingRequests' = IF Matches(g)
                                 THEN {e \in pendingRequests : e.requestId # g.requestId}
                                 ELSE pendingRequests
    ]_vars

\* C37 witness: an envelope of kind "command" has just completed a pending
\* train request and announced the end of the training.
C37_Witness ==
  /\ inbound.parses
  /\ inbound.messageType = "command"
  /\ inbound.commandType = "train"
  /\ Len(settled) = 1
  /\ settled[1].result.kind = "ok"
  /\ \E k \in DOMAIN emitted : emitted[k].type = "train_completed"

====
